---- MODULE Spec2Model ----
(***************************************************************************)
(* The WebSocket frame codec of server/src/frame.rs (OpCode, LengthFormat, *)
(* FrameHeader, apply_mask, Frame) together with the way                   *)
(* server/src/main.rs drives it (parse, read the payload, unmask).         *)
(*                                                                         *)
(* Representation:                                                         *)
(*   u8       a number in 0..255                                           *)
(*   u64      four 16-bit limbs <<l3, l2, l1, l0>>, most significant first *)
(*            (a u64 does not fit the checker's integers)                  *)
(*   Vec<u8>  a sequence of u8                                             *)
(*   Option<[u8; 4]>   <<>> for None, a 4-tuple for Some                   *)
(*   OpCode   [cat, kind, n]; n is the payload of Reserved(n), 0 otherwise *)
(***************************************************************************)
EXTENDS Integers, Sequences, FiniteSets, TLC

(***************************************************************************)
(* Bounds of the model.                                                    *)
(***************************************************************************)
MaxPayloadLen == 2
MaxCut == 14

(***************************************************************************)
(* Bit operators on unsigned numbers: Rust's &, | and ^.                   *)
(***************************************************************************)
RECURSIVE BitAnd(_, _)
BitAnd(a, b) ==
    IF a = 0 \/ b = 0 THEN 0
    ELSE ((a % 2) * (b % 2)) + 2 * BitAnd(a \div 2, b \div 2)

RECURSIVE BitOr(_, _)
BitOr(a, b) ==
    IF a = 0 THEN b
    ELSE IF b = 0 THEN a
    ELSE (IF (a % 2) + (b % 2) > 0 THEN 1 ELSE 0) + 2 * BitOr(a \div 2, b \div 2)

RECURSIVE BitXor(_, _)
BitXor(a, b) ==
    IF a = 0 THEN b
    ELSE IF b = 0 THEN a
    ELSE (((a % 2) + (b % 2)) % 2) + 2 * BitXor(a \div 2, b \div 2)

(***************************************************************************)
(* u64 as four 16-bit limbs.                                               *)
(***************************************************************************)
U64FromU8(b) == <<0, 0, 0, b>>

U64FromUsize(n) == <<0, 0, n \div 65536, n % 65536>>

U64Lt(x, y) ==
    \E i \in 1..4 : x[i] < y[i] /\ \A j \in 1..(i - 1) : x[j] = y[j]

AsU8(x) == x[4] % 256

AsU16(x) == x[4]

(***************************************************************************)
(* OpCode, Data, Control.                                                  *)
(***************************************************************************)
Op(c, k, i) == [cat |-> c, kind |-> k, n |-> i]

Data(k) == Op("Data", k, 0)
DataReserved(i) == Op("Data", "Reserved", i)
Control(k) == Op("Control", k, 0)
ControlReserved(i) == Op("Control", "Reserved", i)
OpPanic(i) == Op("Panic", "invalid opcode", i)

OpCodeIntoU8(opcode) ==
    IF opcode = Data("Continue") THEN 0
    ELSE IF opcode = Data("Text") THEN 1
    ELSE IF opcode = Data("Binary") THEN 2
    ELSE IF opcode.cat = "Data" /\ opcode.kind = "Reserved" THEN opcode.n
    ELSE IF opcode = Control("Close") THEN 8
    ELSE IF opcode = Control("Ping") THEN 9
    ELSE IF opcode = Control("Pong") THEN 10
    ELSE opcode.n

(* OpCodeFromU8 with the data range one too wide: 3..=8 *)
OpCodeFromU8Wide(byte) ==
    IF byte = 0 THEN Data("Continue")
    ELSE IF byte = 1 THEN Data("Text")
    ELSE IF byte = 2 THEN Data("Binary")
    ELSE IF byte \in 3..8 THEN DataReserved(byte)
    ELSE IF byte = 9 THEN Control("Ping")
    ELSE IF byte = 10 THEN Control("Pong")
    ELSE IF byte \in 11..15 THEN ControlReserved(byte)
    ELSE OpPanic(byte)

OpCodeFromU8(byte) ==
    IF byte = 0 THEN Data("Continue")
    ELSE IF byte = 1 THEN Data("Text")
    ELSE IF byte = 2 THEN Data("Binary")
    ELSE IF byte \in 3..7 THEN DataReserved(byte)
    ELSE IF byte = 8 THEN Control("Close")
    ELSE IF byte = 9 THEN Control("Ping")
    ELSE IF byte = 10 THEN Control("Pong")
    ELSE IF byte \in 11..15 THEN ControlReserved(byte)
    ELSE OpPanic(byte)

(***************************************************************************)
(* LengthFormat: "U8", "U16" or "U64"; b is the payload of U8(b).          *)
(***************************************************************************)
(* LengthFormatForLength with length <= 65536 for the 2-byte form *)
LengthFormatForLengthOffByOne(length) ==
    IF U64Lt(length, <<0, 0, 0, 126>>) THEN [fmt |-> "U8", b |-> AsU8(length)]
    ELSE IF U64Lt(length, <<0, 0, 1, 1>>) THEN [fmt |-> "U16", b |-> 0]
    ELSE [fmt |-> "U64", b |-> 0]

LengthFormatForLength(length) ==
    IF U64Lt(length, <<0, 0, 0, 126>>) THEN [fmt |-> "U8", b |-> AsU8(length)]
    ELSE IF U64Lt(length, <<0, 0, 1, 0>>) THEN [fmt |-> "U16", b |-> 0]
    ELSE [fmt |-> "U64", b |-> 0]

LengthByte(lf) ==
    IF lf.fmt = "U8" THEN lf.b
    ELSE IF lf.fmt = "U16" THEN 126
    ELSE 127

ExtraBytes(lf) ==
    IF lf.fmt = "U8" THEN 0
    ELSE IF lf.fmt = "U16" THEN 2
    ELSE 8

LengthFormatForByte(byte) ==
    LET m == BitAnd(byte, 127) IN
    IF m = 126 THEN [fmt |-> "U16", b |-> 0]
    ELSE IF m = 127 THEN [fmt |-> "U64", b |-> 0]
    ELSE [fmt |-> "U8", b |-> m]

(***************************************************************************)
(* byteorder: big-endian writes and reads.                                 *)
(***************************************************************************)
WriteU16(v) == <<v \div 256, v % 256>>

WriteU64(x) == WriteU16(x[1]) \o WriteU16(x[2]) \o WriteU16(x[3]) \o WriteU16(x[4])

ReadUint(bytes) ==
    IF Len(bytes) = 2 THEN <<0, 0, 0, bytes[1] * 256 + bytes[2]>>
    ELSE <<bytes[1] * 256 + bytes[2], bytes[3] * 256 + bytes[4],
           bytes[5] * 256 + bytes[6], bytes[7] * 256 + bytes[8]>>

(***************************************************************************)
(* FrameHeader.                                                            *)
(***************************************************************************)
None == <<>>

FrameHeader(f, r1, r2, r3, op, m) ==
    [is_final |-> f, rsv1 |-> r1, rsv2 |-> r2, rsv3 |-> r3, opcode |-> op, mask |-> m]

HeaderFormat(self, length) ==
    LET code == OpCodeIntoU8(self.opcode)
        one == BitOr(code, IF self.is_final THEN 128 ELSE 0)
        length_format == LengthFormatForLength(length)
        two == BitOr(LengthByte(length_format), IF self.mask # None THEN 128 ELSE 0)
    IN  <<one, two>>
        \o (IF length_format.fmt = "U8" THEN <<>>
            ELSE IF length_format.fmt = "U16" THEN WriteU16(AsU16(length))
            ELSE WriteU64(length))
        \o (IF self.mask # None THEN self.mask ELSE <<>>)

(* HeaderLen that forgets the mask key *)
HeaderLenNoMask(self, length) ==
    2 + ExtraBytes(LengthFormatForLength(length))

HeaderLen(self, length) ==
    2 + ExtraBytes(LengthFormatForLength(length)) + (IF self.mask # None THEN 4 ELSE 0)

(***************************************************************************)
(* apply_mask: byte i (counted from 0) is XORed with mask[i & 3].          *)
(***************************************************************************)
(* ApplyMask that indexes the key from the 1-based position *)
ApplyMaskShifted(buf, mask) ==
    [j \in 1..Len(buf) |-> BitXor(buf[j], mask[BitAnd(j, 3) + 1])]

ApplyMask(buf, mask) ==
    [j \in 1..Len(buf) |-> BitXor(buf[j], mask[BitAnd(j - 1, 3) + 1])]

(***************************************************************************)
(* FrameHeader::parse over a byte source.  The source is [bytes, failAt]:  *)
(* a read of n bytes yields the next min(n, remaining) bytes; failAt = k   *)
(* makes the k-th read of parse (1 the fixed bytes, 2 the length           *)
(* extension, 3 the mask key) fail with an I/O error other than            *)
(* UnexpectedEof; failAt = 0 is a source that never fails.                 *)
(* The outcome is [tag, header, length, pos]: tag "None" is Ok(None),      *)
(* "Some" is Ok(Some((header, length))), "Err" is Err(_), "Panic" is the   *)
(* panic of OpCode::from; pos is the position of the source after          *)
(* Ok(Some(_)).                                                            *)
(***************************************************************************)
NoOp == Op("", "", 0)

NoHeader == FrameHeader(FALSE, FALSE, FALSE, FALSE, NoOp, None)

Outcome(t, h, l, p) == [tag |-> t, header |-> h, length |-> l, pos |-> p]

OkNone == Outcome("None", NoHeader, U64FromU8(0), 0)
IoErr == Outcome("Err", NoHeader, U64FromU8(0), 0)
Panicked == Outcome("Panic", NoHeader, U64FromU8(0), 0)
NoOutcome == Outcome("", NoHeader, U64FromU8(0), 0)

Min(a, b) == IF a < b THEN a ELSE b

Read(bytes, pos, n) == SubSeq(bytes, pos + 1, Min(pos + n, Len(bytes)))

(* ParseMask that treats a short read of the key as an error *)
ParseMaskStrict(input, pos, masked) ==
    IF masked
    THEN IF input.failAt = 3 THEN IoErr
         ELSE LET mask_bytes == Read(input.bytes, pos, 4) IN
              IF Len(mask_bytes) # 4 THEN IoErr
              ELSE Outcome("Some", NoHeader, U64FromU8(0), pos + 4)
    ELSE Outcome("Some", NoHeader, U64FromU8(0), pos)

ParseMask(input, pos, masked) ==
    IF masked
    THEN IF input.failAt = 3 THEN IoErr
         ELSE LET mask_bytes == Read(input.bytes, pos, 4) IN
              IF Len(mask_bytes) # 4 THEN OkNone
              ELSE Outcome("Some", NoHeader, U64FromU8(0), pos + 4)
    ELSE Outcome("Some", NoHeader, U64FromU8(0), pos)

(* ParseLength that passes UnexpectedEof on like any other error *)
ParseLengthEofErr(input, second) ==
    LET length_byte == BitAnd(second, 127)
        length_length == ExtraBytes(LengthFormatForByte(length_byte))
    IN  IF length_length > 0
        THEN IF input.failAt = 2 THEN IoErr
             ELSE LET ext == Read(input.bytes, 2, length_length) IN
                  IF Len(ext) # length_length THEN IoErr
                  ELSE Outcome("Some", NoHeader, ReadUint(ext), 2 + length_length)
        ELSE Outcome("Some", NoHeader, U64FromU8(length_byte), 2)

ParseLength(input, second) ==
    LET length_byte == BitAnd(second, 127)
        length_length == ExtraBytes(LengthFormatForByte(length_byte))
    IN  IF length_length > 0
        THEN IF input.failAt = 2 THEN IoErr
             ELSE LET ext == Read(input.bytes, 2, length_length) IN
                  IF Len(ext) # length_length THEN OkNone
                  ELSE Outcome("Some", NoHeader, ReadUint(ext), 2 + length_length)
        ELSE Outcome("Some", NoHeader, U64FromU8(length_byte), 2)

(* ParseOpCode without the 4-bit mask *)
ParseOpCodeUnmasked(first) == OpCodeFromU8(first)

ParseOpCode(first) == OpCodeFromU8(BitAnd(first, 15))

Parse(input) ==
    IF input.failAt = 1 THEN IoErr
    ELSE
    LET head == Read(input.bytes, 0, 2) IN
    IF Len(head) # 2 THEN OkNone
    ELSE
    LET first == head[1]
        second == head[2]
        is_final == BitAnd(first, 128) # 0
        rsv1 == BitAnd(first, 64) # 0
        rsv2 == BitAnd(first, 32) # 0
        rsv3 == BitAnd(first, 16) # 0
        opcode == ParseOpCode(first)
        masked == BitAnd(second, 128) # 0
    IN  IF opcode.cat = "Panic" THEN Panicked
        ELSE
        LET length == ParseLength(input, second) IN
        IF length.tag # "Some" THEN length
        ELSE
        LET mask == ParseMask(input, length.pos, masked) IN
        IF mask.tag # "Some" THEN mask
        ELSE Outcome("Some",
                     FrameHeader(is_final, rsv1, rsv2, rsv3, opcode,
                                 IF masked THEN Read(input.bytes, length.pos, 4) ELSE None),
                     length.length, mask.pos)

(***************************************************************************)
(* Frame.                                                                  *)
(***************************************************************************)
Frame(h, p) == [header |-> h, payload |-> p]

NoFrame == Frame(NoHeader, <<>>)

FrameMessage(payload, opcode) ==
    Frame(FrameHeader(TRUE, FALSE, FALSE, FALSE, opcode, None), payload)

FrameApplyMask(self) ==
    IF self.header.mask # None
    THEN Frame([self.header EXCEPT !.mask = None], ApplyMask(self.payload, self.header.mask))
    ELSE self

(* FrameFormat that masks before it writes the header *)
FrameFormatMaskFirst(self) ==
    LET masked == FrameApplyMask(self)
        head == HeaderFormat(masked.header, U64FromUsize(Len(masked.payload)))
    IN  head \o masked.payload

FrameFormat(self) ==
    LET head == HeaderFormat(self.header, U64FromUsize(Len(self.payload)))
        masked == FrameApplyMask(self)
    IN  head \o masked.payload

(***************************************************************************)
(* The values the operations are applied to.                               *)
(***************************************************************************)
RfcKey == <<55, 250, 33, 61>>
RfcMasked == <<127, 159, 77, 81, 88>>
Hello == <<72, 101, 108, 108, 111>>

Keys == {RfcKey, <<255, 0, 129, 2>>}

Masks == {None} \cup Keys

WireOpCodes == {OpCodeFromU8(b) : b \in 0..15}

OpCodes == WireOpCodes \cup {DataReserved(9), DataReserved(0), DataReserved(200),
                             ControlReserved(3), ControlReserved(10), ControlReserved(255)}

Headers ==
    {FrameHeader(f, r1, r2, r3, op, m) :
        f \in BOOLEAN, r1 \in BOOLEAN, r2 \in BOOLEAN, r3 \in BOOLEAN,
        op \in WireOpCodes, m \in Masks}

PayloadBytes == {0, 165}

Pattern(n) == [i \in 1..n |-> (i * 37 + 1) % 256]

SmallPayloads == UNION {[1..n -> PayloadBytes] : n \in 0..MaxPayloadLen}

Payloads == SmallPayloads \cup {Hello, RfcMasked, Pattern(126), Pattern(131)}

Lengths ==
    {U64FromU8(0), U64FromU8(1), U64FromU8(5), U64FromU8(125), U64FromU8(126),
     U64FromU8(127), U64FromU8(255), <<0, 0, 0, 256>>, <<0, 0, 0, 65535>>,
     <<0, 0, 1, 0>>, <<0, 0, 1, 1>>, <<0, 0, 1, 125>>, <<0, 1, 0, 0>>,
     <<1, 0, 0, 5>>, <<65535, 65535, 65535, 65535>>}

AllPairs == {<<a, b>> : a \in 0..255, b \in 0..255}

Tails == {Pattern(n) : n \in 0..13} \cup {<<0, 5>>, <<0, 0, 0, 0, 0, 0, 0, 5>>}

Framed ==
    {<<a, b>> \o t : a \in {129, 15, 112, 255}, b \in {5, 126, 127, 133, 254, 255}, t \in Tails}

Samples ==
    {<<>>, <<129>>, <<129, 5>> \o Hello, <<129, 133>> \o RfcKey \o RfcMasked}

Source(b, f) == [bytes |-> b, failAt |-> f]

Sources ==
    {Source(b, 0) : b \in AllPairs \cup Samples}
        \cup {Source(b, f) : b \in Framed, f \in 0..3}

Cuts(n) == 0..Min(MaxCut, n) \cup {n}

(***************************************************************************)
(* State.                                                                  *)
(*   pc       what has been done so far                                    *)
(*   frame    the Frame under construction                                 *)
(*   sent     what was handed to format: the header, the length and the    *)
(*            payload as they were before the call                         *)
(*   output   the bytes written by format                                  *)
(*   input    the byte source given to parse                               *)
(*   result   the outcome of parse                                         *)
(*   payload  the payload the caller has read and unmasked                 *)
(*   hlen     the value of FrameHeader::len                                *)
(*   conv     an OpCode conversion: the value, its byte, and the result of *)
(*            converting back                                              *)
(*   mbuf     a buffer under apply_mask: original, key, current contents   *)
(***************************************************************************)
VARIABLES pc, frame, sent, output, input, result, payload, hlen, conv, mbuf

vars == <<pc, frame, sent, output, input, result, payload, hlen, conv, mbuf>>

Sent(k, h, l, p) == [kind |-> k, header |-> h, length |-> l, payload |-> p]

NoSent == Sent("", NoHeader, U64FromU8(0), <<>>)

Conv(o, b, o2, b2) == [op |-> o, byte |-> b, op2 |-> o2, byte2 |-> b2]

NoConv == Conv(NoOp, 0, NoOp, 0)

MBuf(o, k, c) == [orig |-> o, key |-> k, cur |-> c]

NoMBuf == MBuf(<<>>, None, <<>>)

Init ==
    /\ pc = "idle"
    /\ frame = NoFrame
    /\ sent = NoSent
    /\ output = <<>>
    /\ input = Source(<<>>, 0)
    /\ result = NoOutcome
    /\ payload = <<>>
    /\ hlen = 0
    /\ conv = NoConv
    /\ mbuf = NoMBuf

(* A Frame value with any header: the struct is built field by field. *)
NewFrame ==
    /\ pc = "idle"
    /\ \E h \in Headers, p \in Payloads : frame' = Frame(h, p)
    /\ pc' = "built"
    /\ UNCHANGED <<sent, output, input, result, payload, hlen, conv, mbuf>>

(* Frame::message(payload, opcode) *)
Message ==
    /\ pc = "idle"
    /\ \E p \in Payloads, op \in OpCodes : frame' = FrameMessage(p, op)
    /\ pc' = "built"
    /\ UNCHANGED <<sent, output, input, result, payload, hlen, conv, mbuf>>

(* FrameHeader::set_random_mask on the frame's header *)
SetRandomMask ==
    /\ pc = "built"
    /\ \E k \in Keys : frame' = [frame EXCEPT !.header.mask = k]
    /\ UNCHANGED <<pc, sent, output, input, result, payload, hlen, conv, mbuf>>

(* Frame::format(self, output): the frame is consumed *)
FormatFrame ==
    /\ pc = "built"
    /\ output' = FrameFormat(frame)
    /\ sent' = Sent("frame", frame.header, U64FromUsize(Len(frame.payload)), frame.payload)
    /\ frame' = NoFrame
    /\ pc' = "written"
    /\ UNCHANGED <<input, result, payload, hlen, conv, mbuf>>

(* FrameHeader::format(&self, length, output) *)
FormatHeader ==
    /\ pc = "idle"
    /\ \E h \in Headers, l \in Lengths :
        /\ output' = HeaderFormat(h, l)
        /\ sent' = Sent("header", h, l, <<>>)
    /\ pc' = "written"
    /\ UNCHANGED <<frame, input, result, payload, hlen, conv, mbuf>>

(* FrameHeader::len(&self, length) of the header just formatted *)
MeasureHeader ==
    /\ pc = "written"
    /\ sent.kind = "header"
    /\ hlen' = HeaderLen(sent.header, sent.length)
    /\ pc' = "measured"
    /\ UNCHANGED <<frame, sent, output, input, result, payload, conv, mbuf>>

(* The written bytes, or a prefix of them, become the source of a parse. *)
Deliver ==
    /\ pc = "written"
    /\ \E n \in Cuts(Len(output)) : input' = Source(SubSeq(output, 1, n), 0)
    /\ pc' = "delivered"
    /\ UNCHANGED <<frame, sent, output, result, payload, hlen, conv, mbuf>>

(* Bytes of a peer become the source of a parse. *)
Receive ==
    /\ pc = "idle"
    /\ \E s \in Sources : input' = s
    /\ pc' = "delivered"
    /\ UNCHANGED <<frame, sent, output, result, payload, hlen, conv, mbuf>>

(* FrameHeader::parse(input) *)
ParseInput ==
    /\ pc = "delivered"
    /\ result' = Parse(input)
    /\ pc' = "parsed"
    /\ UNCHANGED <<frame, sent, output, input, payload, hlen, conv, mbuf>>

(* The caller unwraps the outcome, reads length bytes and unmasks them. *)
ReadPayload ==
    /\ pc = "parsed"
    /\ IF result.tag # "Some"
          \/ U64Lt(U64FromUsize(Len(input.bytes) - result.pos), result.length)
       THEN pc' = "crashed" /\ payload' = payload
       ELSE LET n == result.length[3] * 65536 + result.length[4]
                raw == Read(input.bytes, result.pos, n)
            IN  /\ payload' = IF result.header.mask # None
                              THEN ApplyMask(raw, result.header.mask)
                              ELSE raw
                /\ pc' = "received"
    /\ UNCHANGED <<frame, sent, output, input, result, hlen, conv, mbuf>>

(* The caller echoes the payload as a text message. *)
Echo ==
    /\ pc = "received"
    /\ output' = FrameFormat(FrameMessage(payload, Data("Text")))
    /\ pc' = "echoed"
    /\ UNCHANGED <<frame, sent, input, result, payload, hlen, conv, mbuf>>

(* u8::from(opcode) *)
EncodeOpCode ==
    /\ pc = "idle"
    /\ \E op \in OpCodes : conv' = Conv(op, OpCodeIntoU8(op), NoOp, 0)
    /\ pc' = "op_encoded"
    /\ UNCHANGED <<frame, sent, output, input, result, payload, hlen, mbuf>>

(* OpCode::from of the byte just produced *)
DecodeBack ==
    /\ pc = "op_encoded"
    /\ conv' = [conv EXCEPT !.op2 = OpCodeFromU8(conv.byte)]
    /\ pc' = "op_decoded"
    /\ UNCHANGED <<frame, sent, output, input, result, payload, hlen, mbuf>>

(* OpCode::from(byte) *)
DecodeByte ==
    /\ pc = "idle"
    /\ \E b \in 0..255 : conv' = Conv(OpCodeFromU8(b), b, NoOp, 0)
    /\ pc' = "byte_decoded"
    /\ UNCHANGED <<frame, sent, output, input, result, payload, hlen, mbuf>>

(* u8::from of the OpCode just produced, unless OpCode::from panicked *)
EncodeBack ==
    /\ pc = "byte_decoded"
    /\ conv.op.cat # "Panic"
    /\ conv' = [conv EXCEPT !.byte2 = OpCodeIntoU8(conv.op)]
    /\ pc' = "byte_encoded"
    /\ UNCHANGED <<frame, sent, output, input, result, payload, hlen, mbuf>>

(* apply_mask(buf, mask) *)
Mask ==
    /\ pc = "idle"
    /\ \E b \in Payloads, k \in Keys : mbuf' = MBuf(b, k, ApplyMask(b, k))
    /\ pc' = "masked"
    /\ UNCHANGED <<frame, sent, output, input, result, payload, hlen, conv>>

(* apply_mask again on the same buffer with the same key *)
Unmask ==
    /\ pc = "masked"
    /\ mbuf' = [mbuf EXCEPT !.cur = ApplyMask(mbuf.cur, mbuf.key)]
    /\ pc' = "unmasked"
    /\ UNCHANGED <<frame, sent, output, input, result, payload, hlen, conv>>

Next ==
    \/ NewFrame
    \/ Message
    \/ SetRandomMask
    \/ FormatFrame
    \/ FormatHeader
    \/ MeasureHeader
    \/ Deliver
    \/ Receive
    \/ ParseInput
    \/ ReadPayload
    \/ Echo
    \/ EncodeOpCode
    \/ DecodeBack
    \/ DecodeByte
    \/ EncodeBack
    \/ Mask
    \/ Unmask

Spec == Init /\ [][Next]_vars

TypeOK ==
    /\ pc \in {"idle", "built", "written", "measured", "delivered", "parsed", "received",
               "crashed", "echoed", "op_encoded", "op_decoded", "byte_decoded",
               "byte_encoded", "masked", "unmasked"}
    /\ \A i \in 1..Len(output) : output[i] \in 0..255
    /\ \A i \in 1..Len(payload) : payload[i] \in 0..255
    /\ result.tag \in {"", "None", "Some", "Err", "Panic"}

(***************************************************************************)
(* Shapes of a byte source, read off its bytes alone.                      *)
(***************************************************************************)
LengthField(s) == s.bytes[2] % 128

MaskFlag(s) == s.bytes[2] >= 128

ExtensionOf(s) ==
    IF LengthField(s) = 126 THEN 2 ELSE IF LengthField(s) = 127 THEN 8 ELSE 0

(* fewer than 2 bytes for the fixed header, and the read does not fail *)
ShortHead(s) == Len(s.bytes) < 2 /\ s.failAt # 1

(* the fixed header is there, the length extension is cut short *)
ShortExtension(s) ==
    /\ Len(s.bytes) >= 2
    /\ Len(s.bytes) < 2 + ExtensionOf(s)
    /\ s.failAt \notin {1, 2}

(* fixed header and extension are there, the mask key is cut short *)
ShortMaskKey(s) ==
    /\ Len(s.bytes) >= 2
    /\ MaskFlag(s)
    /\ Len(s.bytes) >= 2 + ExtensionOf(s)
    /\ Len(s.bytes) < 2 + ExtensionOf(s) + 4
    /\ s.failAt \notin {1, 3}
    /\ (s.failAt = 2 => ExtensionOf(s) = 0)

(* the source of the parse is exactly what format wrote *)
WholeFrameParsed ==
    /\ pc \in {"parsed", "received", "crashed"}
    /\ sent.kind = "frame"
    /\ input.bytes = output

WholeHeaderParsed ==
    /\ pc \in {"parsed", "received", "crashed"}
    /\ sent.kind = "header"
    /\ input.bytes = output

(***************************************************************************)
(* C1.  Header/payload round trip: a frame written by format (header for   *)
(* len(P), then the payload, masked when the header has a key), parsed     *)
(* again, its payload read and unmasked, gives back a header equal to H in *)
(* every field (is_final, rsv1, rsv2, rsv3, opcode, mask) and the payload  *)
(* P.                                                                      *)
(***************************************************************************)
C1_RoundTrip ==
    WholeFrameParsed =>
        /\ result.tag = "Some"
        /\ result.header = sent.header
        /\ pc # "crashed"
        /\ (pc = "received" => payload = sent.payload)

IsSmall(L) == L[1] = 0 /\ L[2] = 0 /\ L[3] = 0 /\ L[4] < 126

IsMedium(L) == L[1] = 0 /\ L[2] = 0 /\ L[3] = 0 /\ L[4] >= 126

C3_LengthRoundTrip ==
    /\ (sent.kind = "header" /\ pc \in {"written", "delivered", "parsed"}) =>
          LET L == sent.length IN
          /\ LengthFormatForLength(L).fmt =
                (IF IsSmall(L) THEN "U8" ELSE IF IsMedium(L) THEN "U16" ELSE "U64")
          /\ output[2] % 128 = (IF IsSmall(L) THEN L[4] ELSE IF IsMedium(L) THEN 126 ELSE 127)
          /\ Len(output) = 2 + (IF IsSmall(L) THEN 0 ELSE IF IsMedium(L) THEN 2 ELSE 8)
                             + (IF sent.header.mask # None THEN 4 ELSE 0)
          /\ (L = <<0, 0, 1, 0>> => SubSeq(output, 3, 10) = <<0, 0, 0, 0, 0, 1, 0, 0>>)
    /\ WholeHeaderParsed => (result.tag = "Some" /\ result.length = sent.length)

C3_Witness ==
    /\ WholeHeaderParsed
    /\ sent.length = <<0, 0, 1, 0>>
    /\ output[2] % 128 = 127
    /\ result.length = <<0, 0, 1, 0>>

(***************************************************************************)
(* C4.  A benign short read yields Ok(None): fewer than 2 bytes for the    *)
(* fixed header, or a length field of 126 or 127 and a source exhausted    *)
(* before the 2 or 8 extension bytes; never Err, never Some.               *)
(***************************************************************************)
C4_ShortReadIsNone ==
    (pc = "parsed" /\ (ShortHead(input) \/ ShortExtension(input))) => result = OkNone

C4_Witness ==
    /\ pc = "parsed"
    /\ ShortExtension(input)
    /\ LengthField(input) = 127
    /\ Len(input.bytes) = 7
    /\ result.tag = "None"

(***************************************************************************)
(* C5.  Header length accounting: format writes exactly len(L) bytes, and  *)
(* len(L) = 2 + (0 if L < 126, 2 if 126 <= L < 65536, 8 otherwise)         *)
(* + (4 if the header has a mask, 0 otherwise).                            *)
(***************************************************************************)
C5_HeaderLen ==
    pc = "measured" =>
        /\ hlen = Len(output)
        /\ hlen = 2 + (IF IsSmall(sent.length) THEN 0
                        ELSE IF IsMedium(sent.length) THEN 2 ELSE 8)
                    + (IF sent.header.mask # None THEN 4 ELSE 0)

C5_Witness ==
    /\ pc = "measured"
    /\ sent.header.mask # None
    /\ sent.length = <<0, 0, 1, 0>>
    /\ hlen = 14

(***************************************************************************)
(* C6.  Masking is self-inverse: apply_mask XORs byte i with K[i mod 4],   *)
(* applying it twice with the same key gives the buffer back, and key      *)
(* 37 fa 21 3d on 7f 9f 4d 51 58 gives 48 65 6c 6c 6f.                     *)
(***************************************************************************)
C6_MaskSelfInverse ==
    /\ pc = "masked" =>
          /\ Len(mbuf.cur) = Len(mbuf.orig)
          /\ \A i \in 0..(Len(mbuf.orig) - 1) :
                mbuf.cur[i + 1] = BitXor(mbuf.orig[i + 1], mbuf.key[(i % 4) + 1])
          /\ ((mbuf.orig = RfcMasked /\ mbuf.key = RfcKey) => mbuf.cur = Hello)
    /\ pc = "unmasked" => mbuf.cur = mbuf.orig

C6_Witness ==
    /\ pc = "unmasked"
    /\ mbuf.orig = RfcMasked
    /\ mbuf.key = RfcKey
    /\ mbuf.cur = <<127, 159, 77, 81, 88>>

(***************************************************************************)
(* C7.  Every constructible OpCode converts to a byte in 0..15 and         *)
(* converting that byte back gives the same OpCode.                        *)
(***************************************************************************)
C7_OpCodeRoundTrip ==
    pc = "op_decoded" => (conv.byte \in 0..15 /\ conv.op2 = conv.op)

(***************************************************************************)
(* C8.  Every byte b in 0..15 decodes to the OpCode of the table (0, 1, 2  *)
(* Continue, Text, Binary; 3..7 Data(Reserved(b)); 8, 9, 10 Close, Ping,   *)
(* Pong; 11..15 Control(Reserved(b))) and encodes back to b.               *)
(***************************************************************************)
TableOpCode(b) ==
    CASE b = 0 -> [cat |-> "Data", kind |-> "Continue", n |-> 0]
      [] b = 1 -> [cat |-> "Data", kind |-> "Text", n |-> 0]
      [] b = 2 -> [cat |-> "Data", kind |-> "Binary", n |-> 0]
      [] b \in {3, 4, 5, 6, 7} -> [cat |-> "Data", kind |-> "Reserved", n |-> b]
      [] b = 8 -> [cat |-> "Control", kind |-> "Close", n |-> 0]
      [] b = 9 -> [cat |-> "Control", kind |-> "Ping", n |-> 0]
      [] b = 10 -> [cat |-> "Control", kind |-> "Pong", n |-> 0]
      [] b \in {11, 12, 13, 14, 15} -> [cat |-> "Control", kind |-> "Reserved", n |-> b]

C8_ByteRoundTrip ==
    (pc \in {"byte_decoded", "byte_encoded"} /\ conv.byte \in 0..15) =>
        /\ conv.op = TableOpCode(conv.byte)
        /\ (pc = "byte_encoded" => conv.byte2 = conv.byte)

C8_Witness ==
    /\ pc = "byte_encoded"
    /\ conv.byte = 11
    /\ conv.op = ControlReserved(11)
    /\ conv.byte2 = 11

(***************************************************************************)
(* C9.  Frame::format writes the bytes of H.format(len(P)), with the mask  *)
(* flag and the key K when H.mask is Some(K), followed by len(P) payload   *)
(* bytes: P[i] XOR K[i mod 4] under a mask, P[i] otherwise.  A frame from  *)
(* Frame::message is final, has no reserved bit and no mask, and its       *)
(* payload is written verbatim.                                            *)
(***************************************************************************)
WirePayload(P, K) ==
    [j \in 1..Len(P) |-> IF K # None THEN BitXor(P[j], K[((j - 1) % 4) + 1]) ELSE P[j]]

C9_FrameFormatLayout ==
    /\ (pc = "written" /\ sent.kind = "frame") =>
          LET hl == Len(output) - Len(sent.payload) IN
          /\ output = HeaderFormat(sent.header, sent.length)
                          \o WirePayload(sent.payload, sent.header.mask)
          /\ sent.length = <<0, 0, 0, Len(sent.payload)>>
          /\ (output[2] >= 128) = (sent.header.mask # None)
          /\ (sent.header.mask # None => SubSeq(output, hl - 3, hl) = sent.header.mask)
    /\ pc = "echoed" =>
          /\ output[1] = 129
          /\ output[2] < 128
          /\ SubSeq(output, Len(output) - Len(payload) + 1, Len(output)) = payload

C9_Witness ==
    /\ pc = "written"
    /\ sent.kind = "frame"
    /\ sent.header.mask = RfcKey
    /\ sent.payload = Hello
    /\ output = <<129, 133>> \o RfcKey \o RfcMasked

(***************************************************************************)
(* C10.  The panic of OpCode::from is not reachable from parse: whatever   *)
(* the two fixed bytes are, the value decoded is the low 4 bits of byte 0. *)
(***************************************************************************)
C10_NoOpCodePanic ==
    /\ result.tag # "Panic"
    /\ (pc = "parsed" /\ result.tag = "Some") =>
          OpCodeIntoU8(result.header.opcode) = input.bytes[1] % 16

C10_Witness ==
    /\ pc = "parsed"
    /\ Len(input.bytes) >= 2
    /\ input.bytes[1] = 255
    /\ result.tag = "Some"
    /\ result.header.opcode = ControlReserved(15)

====
